---- MODULE Spec2Model ----
(***************************************************************************)
(* NetworkMap: dump classifier, format extractors, Node identity, the     *)
(* graph growth engine (netgrapher.grow_graph) and the command line run   *)
(* (networkmap.__main__.main).                                             *)
(*                                                                         *)
(* A Python call is modelled by an operator returning a record            *)
(*   [exc |-> None or the name of the exception raised, ret |-> value]    *)
(* plus, where the callee can touch them, the objects it was handed.      *)
(***************************************************************************)
EXTENDS Integers, Sequences, FiniteSets, TLC

VARIABLES
    args,          \* the inputs of the call / the parsed command line
    call,          \* the last library call made and what it produced
    graph,         \* the in-memory graph object (current_graph / loaded_graph)
    pc,            \* position of main(): "idle" when no run is in progress
    fs,            \* the savefile and its .bak on disk
    fs0,           \* the disk when the run started
    final_graph,   \* what main() got back from grow_graph
    raised,        \* the exception that ended the run, None if none
    exit_status,   \* process exit status, None while running
    save_called    \* whether main() reached save_graph

vars == <<args, call, graph, pc, fs, fs0, final_graph, raised, exit_status, save_called>>
mainvars == <<pc, fs, fs0, final_graph, raised, exit_status, save_called>>

(***************************************************************************)
(* Bounds of the model.                                                    *)
(***************************************************************************)
MaxLines == 3        \* lines in a dump handed to the classifier / an extractor
MaxGrowLines == 2    \* lines in a dump handed to grow_graph and to main()

None == "None"            \* Python's None where a string is expected
NoMac == <<>>             \* Python's None where a hardware address is expected
Unbound == "<unbound>"    \* a local name that was never assigned

(***************************************************************************)
(* Text of the dumps.  A line is kept as the fields the regular           *)
(* expressions of parsers.py look at:                                      *)
(*   iface    "Interface: <ip> --- 0x11"                                   *)
(*   winhost  "  <ip>      <mac, hyphens>     dynamic"                     *)
(*   linhost  "<ip>  ether  <mac, colons>  C  vif2.0"                      *)
(*   hop      "  1  <ip>  0.550 ms  0.463 ms  0.383 ms"                    *)
(*   row      "<ip>  <gw>  255.255.255.0  UG  0 0 0 eth0" (routing table)  *)
(*   the six header lines of guess_data, and any other text.               *)
(***************************************************************************)
CentreIPs == {"10.0.0.1", "10.137.2.16"}
HostIP == "10.137.2.1"
HopIP == "10.137.4.1"
HwAddr1 == <<254, 255, 255, 255, 255, 255>>   \* fe ff ff ff ff ff
HwAddr2 == <<0, 22, 62, 94, 108, 6>>          \* 00 16 3e 5e 6c 06

\* the text of a hardware address: its separator, then its six bytes
Mac(sep, bytes) == <<sep>> \o bytes

Line(k, ip, mac) == [k |-> k, ip |-> ip, mac |-> mac]

HeaderKinds == {"hdr_arp_linux", "hdr_arp_openbsd", "hdr_traceroute",
                "hdr_route_kernel", "hdr_route_dest", "hdr_route_windows"}

IfaceLines == {Line("iface", ip, NoMac) : ip \in CentreIPs}
WinHostLines == {Line("winhost", HostIP, Mac("-", HwAddr1))}
LinHostLines == {Line("linhost", HostIP, Mac(":", HwAddr2))}
HopLines == {Line("hop", ip, NoMac) : ip \in {HopIP, HostIP}}
RowLines == {Line("row", HopIP, NoMac)}
HeaderLines == {Line(k, None, NoMac) : k \in HeaderKinds}
OtherLines == {Line("other", None, NoMac)}

SeqsUpTo(S, n) == UNION {[1..m -> S] : m \in 0..n}

(***************************************************************************)
(* node.py                                                                 *)
(***************************************************************************)
Node(ip, mac) == [ip |-> ip, mac |-> mac]

Nodes == {Node(ip, mac) : ip \in CentreIPs \cup {HostIP},
                           mac \in {NoMac, Mac("-", HwAddr1), Mac("-", HwAddr2)}}

HasAttr(obj, name) == name \in DOMAIN obj

\* Node.__eq__(self, other): both branches read self.other, an attribute no
\* Node has; the parameter `other` itself is never read.
Node__eq__(self, other) ==
    IF self.mac # NoMac
    THEN IF ~HasAttr(self, "other")
         THEN [exc |-> "AttributeError", ret |-> FALSE]
         ELSE IF self.other.mac # NoMac
              THEN [exc |-> None,
                    ret |-> (self.ip = self.other.ip /\ self.mac = self.other.mac)]
              ELSE [exc |-> None, ret |-> (self.ip = self.other.ip)]
    ELSE IF ~HasAttr(self, "other")
         THEN [exc |-> "AttributeError", ret |-> FALSE]
         ELSE [exc |-> None, ret |-> (self.ip = self.other.ip)]

(***************************************************************************)
(* parsers.py: the classifier                                              *)
(***************************************************************************)
\* re.match(regexp, line) for the seven patterns of guess_data
ReMatch(regexp, line) ==
    CASE regexp = "^Interface:\\s+" -> line.k = "iface"
      [] regexp = "^Address\\s+HWtype\\s+HWaddress\\s+Flags\\s+Mask\\s+Iface$" ->
             line.k = "hdr_arp_linux"
      [] regexp = "^Host\\s+Ethernet\\sAddress\\s+Netif\\sExpire\\sFlags$" ->
             line.k = "hdr_arp_openbsd"
      [] regexp = "^traceroute to .+ \\([\\d.]+\\), \\d+ hops max, \\d+ byte packets$" ->
             line.k = "hdr_traceroute"
      [] regexp = "^Kernel IP routing table$" -> line.k = "hdr_route_kernel"
      [] regexp = "^Destination\\s+Gateway\\s+Genmask\\s+Flags\\sMetric\\sRef\\s+Use\\sIface$" ->
             line.k = "hdr_route_dest"
      [] regexp = "={75}" -> line.k = "hdr_route_windows"
      [] OTHER -> FALSE

guess_data == <<
    <<<<"arp", "windows">>, "^Interface:\\s+">>,
    <<<<"arp", "linux">>, "^Address\\s+HWtype\\s+HWaddress\\s+Flags\\s+Mask\\s+Iface$">>,
    <<<<"arp", "openbsd">>, "^Host\\s+Ethernet\\sAddress\\s+Netif\\sExpire\\sFlags$">>,
    <<<<"traceroute", "linux">>,
      "^traceroute to .+ \\([\\d.]+\\), \\d+ hops max, \\d+ byte packets$">>,
    <<<<"route", "linux">>, "^Kernel IP routing table$">>,
    <<<<"route", "linux">>,
      "^Destination\\s+Gateway\\s+Genmask\\s+Flags\\sMetric\\sRef\\s+Use\\sIface$">>,
    <<<<"route", "windows">>, "={75}">> >>   \* 75 equals signs in the source

SUPPORTED_DUMPFILES == {guess_data[i][1][1] : i \in DOMAIN guess_data}
SUPPORTED_OS == {guess_data[i][1][2] : i \in DOMAIN guess_data}

RECURSIVE guess_scan(_, _, _)
\* the two nested loops: line i of the file, entry j of guess_data
guess_scan(lines, i, j) ==
    IF i > Len(lines) THEN <<None, None>>
    ELSE IF j > Len(guess_data) THEN guess_scan(lines, i + 1, 1)
    ELSE IF ReMatch(guess_data[j][2], lines[i]) THEN guess_data[j][1]
    ELSE guess_scan(lines, i, j + 1)

RECURSIVE guess_scan_by_signature(_, _, _)
\* the loops nested the other way round: signature-major order
guess_scan_by_signature(lines, i, j) ==
    IF j > Len(guess_data) THEN <<None, None>>
    ELSE IF i > Len(lines) THEN guess_scan_by_signature(lines, 1, j + 1)
    ELSE IF ReMatch(guess_data[j][2], lines[i]) THEN guess_data[j][1]
    ELSE guess_scan_by_signature(lines, i + 1, j)

guess_first_signature_wins(dumpfile) == guess_scan_by_signature(dumpfile, 1, 1)

guess_dumpfile_type_and_os(dumpfile) == guess_scan(dumpfile, 1, 1)

(***************************************************************************)
(* parsers.py: the extractors                                              *)
(***************************************************************************)
\* re.match(r'\s+\d+\s+([\w.]+)', line): group(1) of a hop line
MatchHop(line) == line.k = "hop"
\* re.match(r'([\w.]+)\s+\w+\s+(([0-9a-f]{2}:){5}[0-9a-f]{2})', line)
MatchLinuxHost(line) == line.k = "linhost"
\* re.match(r'Interface: (.+) ---', line)
MatchInterface(line) == line.k = "iface"
\* re.match(r'  ([\w.]+)\s+(([0-9a-f]{2}-){5}[0-9a-f]{2})', line)
MatchWindowsHost(line) == line.k = "winhost"

Raise(e, n) == [exc |-> e, ret |-> <<>>, read |-> n]
Return(v, n) == [exc |-> None, ret |-> v, read |-> n]

RECURSIVE tr_loop(_, _, _)
tr_loop(lines, i, hops) ==
    IF i > Len(lines) THEN hops
    ELSE IF MatchHop(lines[i])
         THEN tr_loop(lines, i + 1, Append(hops, Node(lines[i].ip, NoMac)))
         ELSE tr_loop(lines, i + 1, hops)

\* the centre IP is checked only once the whole file has been scanned
parse_linux_tr_late_check(dumpfile, ip) ==
    LET hops == tr_loop(dumpfile, 1, <<Node(ip, NoMac)>>)
    IN  IF ip = None THEN Raise("MyException", Len(dumpfile))
        ELSE Return(hops, Len(dumpfile))

parse_linux_tr(dumpfile, ip) ==
    IF ip = None THEN Raise("MyException", 0)
    ELSE Return(tr_loop(dumpfile, 1, <<Node(ip, NoMac)>>), Len(dumpfile))

RECURSIVE linux_arp_loop(_, _, _)
linux_arp_loop(lines, i, nodes) ==
    IF i > Len(lines) THEN nodes
    ELSE IF MatchLinuxHost(lines[i])
         THEN linux_arp_loop(lines, i + 1, Append(nodes, Node(lines[i].ip, lines[i].mac)))
         ELSE linux_arp_loop(lines, i + 1, nodes)

parse_linux_arp(dumpfile, ip) ==
    LET nodes == linux_arp_loop(dumpfile, 1, <<>>)
    IN  IF ip = None THEN Raise("MyException", Len(dumpfile))
        ELSE Return(<<Node(ip, NoMac), nodes>>, Len(dumpfile))

RECURSIVE windows_arp_loop(_, _, _, _, _)
\* the for loop of parse_windows_arp and the return after it; local_ip is
\* unbound until an Interface line has been seen
windows_arp_loop(lines, i, ip, local_ip, nodes) ==
    IF i > Len(lines)
    THEN IF local_ip = Unbound THEN Raise("UnboundLocalError", Len(lines))
         ELSE Return(<<Node(local_ip, NoMac), nodes>>, Len(lines))
    ELSE IF MatchInterface(lines[i])
         THEN IF ip # None /\ lines[i].ip # ip
              THEN Raise("MyException", Len(lines))
              ELSE windows_arp_loop(lines, i + 1, ip, lines[i].ip, nodes)
    ELSE IF MatchWindowsHost(lines[i])
         THEN windows_arp_loop(lines, i + 1, ip, local_ip,
                               Append(nodes, Node(lines[i].ip, lines[i].mac)))
    ELSE windows_arp_loop(lines, i + 1, ip, local_ip, nodes)

RECURSIVE windows_arp_loop_prefer_hint(_, _, _, _, _)
\* the same loop without the comparison of the Interface line with the hint
windows_arp_loop_prefer_hint(lines, i, ip, local_ip, nodes) ==
    IF i > Len(lines)
    THEN IF local_ip = Unbound THEN Raise("UnboundLocalError", Len(lines))
         ELSE Return(<<Node(IF ip # None THEN ip ELSE local_ip, NoMac), nodes>>, Len(lines))
    ELSE IF MatchInterface(lines[i])
         THEN windows_arp_loop_prefer_hint(lines, i + 1, ip, lines[i].ip, nodes)
    ELSE IF MatchWindowsHost(lines[i])
         THEN windows_arp_loop_prefer_hint(lines, i + 1, ip, local_ip,
                               Append(nodes, Node(lines[i].ip, lines[i].mac)))
    ELSE windows_arp_loop_prefer_hint(lines, i + 1, ip, local_ip, nodes)

parse_windows_arp_prefer_hint(dumpfile, ip) ==
    windows_arp_loop_prefer_hint(dumpfile, 1, ip, Unbound, <<>>)

parse_windows_arp(dumpfile, ip) == windows_arp_loop(dumpfile, 1, ip, Unbound, <<>>)

(***************************************************************************)
(* Values shared by the specifications                                     *)
(***************************************************************************)
\* a graph object: keys are (ip, mac, oid); oid is 0 for a key compared by
\* value and the identity of the object for a key compared by identity
Key(ip, mac, oid) == [ip |-> ip, mac |-> mac, oid |-> oid]
Graph(nodes, edges) == [py |-> "Graph", nodes |-> nodes, edges |-> edges]
EmptyGraph == Graph({}, {})
PyNone == [py |-> "None", nodes |-> {}, edges |-> {}]

\* a path on disk: absent, unparsable, or a serialized graph
File(st, g) == [st |-> st, nodes |-> g.nodes, edges |-> g.edges]
AbsentFile == File("absent", EmptyGraph)
CorruptFile == File("corrupt", EmptyGraph)

NoCall == [fn |-> "none", rep |-> 0]

MainIdle ==
    /\ pc = "idle"
    /\ fs = [savefile |-> AbsentFile, bak |-> AbsentFile]
    /\ fs0 = fs
    /\ final_graph = PyNone
    /\ raised = None
    /\ exit_status = <<>>
    /\ save_called = FALSE

(***************************************************************************)
(* netgrapher.py: the growth engine                                        *)
(***************************************************************************)
netgrapher_SUPPORTED_DUMPFILES == {"arp", "route", "traceroute"}
netgrapher_SUPPORTED_OS == {"windows"}

PyRaise(e, g) == [exc |-> e, ret |-> PyNone, graph |-> g]
PyReturn(v, g) == [exc |-> None, ret |-> v, graph |-> g]

\* r'(([0-9a-f]{2}-){5}[0-9a-f])': the group stops one hex digit short
TruncatedMac(mac) == SubSeq(mac, 1, 6) \o <<mac[7] \div 16>>

RECURSIVE netgrapher_windows_arp_loop(_, _, _, _, _)
netgrapher_windows_arp_loop(lines, i, ip, local_ip, nodes) ==
    IF i > Len(lines)
    THEN IF local_ip = Unbound THEN Raise("UnboundLocalError", Len(lines))
         ELSE Return(<<Node(local_ip, NoMac), nodes>>, Len(lines))
    ELSE IF MatchInterface(lines[i])
         THEN IF ip # None /\ lines[i].ip # ip
              THEN Raise("MyException", Len(lines))
              ELSE netgrapher_windows_arp_loop(lines, i + 1, ip, lines[i].ip, nodes)
    ELSE IF MatchWindowsHost(lines[i])
         THEN netgrapher_windows_arp_loop(lines, i + 1, ip, local_ip,
                  Append(nodes, Node(lines[i].ip, TruncatedMac(lines[i].mac))))
    ELSE netgrapher_windows_arp_loop(lines, i + 1, ip, local_ip, nodes)

\* netgrapher's own parse_windows_arp; returns {Node(_local_ip): nodes}
netgrapher_parse_windows_arp(dumpfile, ip) ==
    netgrapher_windows_arp_loop(dumpfile, 1, ip, Unbound, <<>>)

\* the next object identity not used by a key of the graph
FreshOid(g) == 1 + Cardinality(g.nodes)

\* augment_from_arp adding the parsed Node objects to the graph: a Node
\* hashes by identity, so every call adds new keys
augment_from_arp_add_objects(current_graph, dumpfile, dumpfile_os, ip) ==
    IF dumpfile_os = "windows"
    THEN LET local_net == netgrapher_parse_windows_arp(dumpfile, ip)
             centre == Key(local_net.ret[1].ip, NoMac, FreshOid(current_graph))
             found == {Key(local_net.ret[2][i].ip, local_net.ret[2][i].mac,
                           FreshOid(current_graph) + i) : i \in DOMAIN local_net.ret[2]}
         IN  IF local_net.exc # None THEN PyRaise(local_net.exc, current_graph)
             ELSE PyReturn(PyNone,
                           Graph(current_graph.nodes \cup {centre} \cup found,
                                 current_graph.edges \cup {{centre, n} : n \in found}))
    ELSE PyRaise("NotImplementedError", current_graph)

\* parses the dump and logs what it found; the graph is not touched
augment_from_arp(current_graph, dumpfile, dumpfile_os, ip) ==
    IF dumpfile_os = "windows"
    THEN LET local_net == netgrapher_parse_windows_arp(dumpfile, ip)
         IN  IF local_net.exc # None THEN PyRaise(local_net.exc, current_graph)
             ELSE PyReturn(PyNone, current_graph)
    ELSE PyRaise("NotImplementedError", current_graph)

augment_from_route(current_graph, dumpfile, dumpfile_os, ip) ==
    PyRaise("NotImplementedError", current_graph)

augment_from_tr(current_graph, dumpfile, dumpfile_os, ip) ==
    PyRaise("NotImplementedError", current_graph)

guess_dumpfile_type(f) == "arp"
guess_dumpfile_os(f) == "windows"

\* grow_graph recording the supplied centre in the graph before it validates
\* the dump-type and the OS and before the extractor has run
grow_graph_merge_before_validation(current_graph, dumpfile, dumpfile_os, dumpfile_type, ip) ==
    LET type == IF dumpfile_type = None THEN guess_dumpfile_type(dumpfile)
                ELSE dumpfile_type
        os == IF dumpfile_os = None THEN guess_dumpfile_os(dumpfile) ELSE dumpfile_os
        g1 == IF ip = None THEN current_graph
              ELSE Graph(current_graph.nodes \cup {Key(ip, NoMac, 0)}, current_graph.edges)
    IN  IF type \notin netgrapher_SUPPORTED_DUMPFILES
        THEN PyRaise("MyException", g1)
        ELSE IF os \notin netgrapher_SUPPORTED_OS
        THEN PyRaise("MyException", g1)
        ELSE IF type = "arp" THEN augment_from_arp(g1, dumpfile, os, ip)
        ELSE IF type = "route" THEN augment_from_route(g1, dumpfile, os, ip)
        ELSE IF type = "traceroute" THEN augment_from_tr(g1, dumpfile, os, ip)
        ELSE PyRaise("NotImplementedError", g1)

grow_graph(current_graph, dumpfile, dumpfile_os, dumpfile_type, ip) ==
    LET type == IF dumpfile_type = None THEN guess_dumpfile_type(dumpfile)
                ELSE dumpfile_type
        os == IF dumpfile_os = None THEN guess_dumpfile_os(dumpfile) ELSE dumpfile_os
    IN  IF type \notin netgrapher_SUPPORTED_DUMPFILES
        THEN PyRaise("MyException", current_graph)
        ELSE IF os \notin netgrapher_SUPPORTED_OS
        THEN PyRaise("MyException", current_graph)
        ELSE IF type = "arp" THEN augment_from_arp(current_graph, dumpfile, os, ip)
        ELSE IF type = "route" THEN augment_from_route(current_graph, dumpfile, os, ip)
        ELSE IF type = "traceroute" THEN augment_from_tr(current_graph, dumpfile, os, ip)
        ELSE PyRaise("NotImplementedError", current_graph)

(***************************************************************************)
(* SpecGrow: grow_graph is called on a graph, then again with the same     *)
(* dump on the graph the first call left                                   *)
(***************************************************************************)
GrowLines == IfaceLines \cup WinHostLines \cup HopLines \cup RowLines \cup OtherLines

CentreKey == Key("10.137.2.16", NoMac, 0)
HostKey == Key(HostIP, Mac("-", HwAddr1), 0)
OneNodeGraph == Graph({CentreKey}, {})
OneEdgeGraph == Graph({CentreKey, HostKey}, {{CentreKey, HostKey}})

InitGrow ==
    /\ args \in [dumpfile : SeqsUpTo(GrowLines, MaxGrowLines),
                  dumpfile_os : {None, "windows", "linux"},
                  dumpfile_type : {None} \cup SUPPORTED_DUMPFILES,
                  ip : CentreIPs \cup {None}]
    /\ call = NoCall
    /\ graph \in {EmptyGraph, OneNodeGraph, OneEdgeGraph}
    /\ MainIdle

CallGrow ==
    /\ call.rep < 2
    /\ LET r == grow_graph(graph, args.dumpfile, args.dumpfile_os,
                           args.dumpfile_type, args.ip)
       IN  /\ call' = [fn |-> "grow_graph", before |-> graph, res |-> r,
                       rep |-> call.rep + 1]
           /\ graph' = r.graph
    /\ UNCHANGED <<args, mainvars>>

NextGrow == CallGrow

SpecGrow == InitGrow /\ [][NextGrow]_vars

(***************************************************************************)
(* __main__.py: persistence and the command line run                       *)
(***************************************************************************)
SUPPORTED_FILE_FORMATS == {"GEXF", "DOT", "JSON", "GRAPHML"}

NoPath == File("nopath", EmptyGraph)     \* load_graph(None, ...)
Exists(f) == f.st # "absent"             \* os.path.exists
Stored(g) == File("graph", g)

\* load_graph(savefile, file_format); a parse error of the GEXF or DOT reader
\* becomes MyException, one of the JSON or GRAPHML reader is not caught
load_graph(savefile, file_format) ==
    IF savefile.st = "nopath" THEN PyReturn(EmptyGraph, EmptyGraph)
    ELSE IF Exists(savefile)
    THEN IF file_format \notin SUPPORTED_FILE_FORMATS
         THEN PyRaise("MyException", PyNone)
         ELSE IF savefile.st = "corrupt"
         THEN CASE file_format = "GEXF" -> PyRaise("MyException", PyNone)
                [] file_format = "DOT" -> PyRaise("MyException", PyNone)
                [] file_format = "JSON" -> PyRaise("ValueError", PyNone)
                [] file_format = "GRAPHML" -> PyRaise("ParseError", PyNone)
         ELSE PyReturn(Graph(savefile.nodes, savefile.edges),
                       Graph(savefile.nodes, savefile.edges))
    ELSE PyReturn(EmptyGraph, EmptyGraph)

\* save_graph, first part: an existing savefile is copied to .bak
backup_copy(d) == IF Exists(d.savefile) THEN [d EXCEPT !.bak = d.savefile] ELSE d

\* save_graph, second part: the writer of the format, on the disk d1 left by
\* the copy.  Handed None instead of a graph, the JSON writer fails in
\* node_link_data, before the savefile is opened; the other writers fail
\* before or after they have opened (and so emptied) it.
write_outcomes(g, d1, file_format) ==
    IF file_format \notin SUPPORTED_FILE_FORMATS THEN {[exc |-> None, fs |-> d1]}
    ELSE IF g.py = "None"
    THEN IF file_format = "JSON" THEN {[exc |-> "AttributeError", fs |-> d1]}
         ELSE {[exc |-> "AttributeError", fs |-> d1],
               [exc |-> "AttributeError", fs |-> [d1 EXCEPT !.savefile = CorruptFile]]}
    ELSE {[exc |-> None, fs |-> [d1 EXCEPT !.savefile = Stored(g)]]}

\* save_graph(graph, savefile, file_format) on the disk d: the outcomes it can
\* have.  The copy to .bak comes first.
save_graph(g, d, file_format) == write_outcomes(g, backup_copy(d), file_format)

\* how main() ends on an exception: MyException is logged and turned into a
\* bare `raise SystemExit` (status 0); anything else is an uncaught traceback
ExitOn(exc) == IF exc = "MyException" THEN <<0>> ELSE <<1>>

MainLines == IfaceLines \cup WinHostLines \cup OtherLines
OldGraphFile == Stored(OneNodeGraph)
GoodGraphFile == Stored(OneEdgeGraph)

Init ==
    /\ args \in [dumpfile : SeqsUpTo(MainLines, MaxGrowLines),
                  exists : BOOLEAN,
                  dumpfile_os : {None, "windows", "linux"},
                  dumpfile_type : {None} \cup SUPPORTED_DUMPFILES,
                  ip : {None, "10.0.0.1"},
                  file_format : SUPPORTED_FILE_FORMATS,
                  ignore_savefile : BOOLEAN,
                  dry_run : BOOLEAN]
    /\ args.exists \/ args.dumpfile = <<>>
    /\ fs \in {[savefile |-> AbsentFile, bak |-> AbsentFile],
                [savefile |-> GoodGraphFile, bak |-> AbsentFile],
                [savefile |-> GoodGraphFile, bak |-> OldGraphFile],
                [savefile |-> CorruptFile, bak |-> GoodGraphFile]}
    /\ fs0 = fs
    /\ call = NoCall
    /\ graph = PyNone
    /\ pc = "start"
    /\ final_graph = PyNone
    /\ raised = None
    /\ exit_status = <<>>
    /\ save_called = FALSE

\* argument parsing is done; the dump file must exist
MainStart ==
    /\ pc = "start"
    /\ IF ~args.exists
       THEN /\ pc' = "exited"
            /\ raised' = "SystemExit"
            /\ exit_status' = <<1>>
       ELSE /\ pc' = "load"
            /\ UNCHANGED <<raised, exit_status>>
    /\ UNCHANGED <<args, call, graph, fs, fs0, final_graph, save_called>>

MainLoad ==
    /\ pc = "load"
    /\ LET r == load_graph(IF args.ignore_savefile THEN NoPath ELSE fs.savefile,
                           args.file_format)
       IN  /\ call' = [fn |-> "load_graph", rep |-> 0, res |-> r]
           /\ graph' = r.ret
           /\ IF r.exc # None
              THEN /\ pc' = "exited"
                   /\ raised' = r.exc
                   /\ exit_status' = ExitOn(r.exc)
              ELSE /\ pc' = "grow"
                   /\ UNCHANGED <<raised, exit_status>>
    /\ UNCHANGED <<args, fs, fs0, final_graph, save_called>>

MainGrow ==
    /\ pc = "grow"
    /\ LET r == grow_graph(graph, args.dumpfile, args.dumpfile_os,
                           args.dumpfile_type, args.ip)
       IN  /\ call' = [fn |-> "grow_graph", rep |-> 1, before |-> graph, res |-> r]
           /\ graph' = r.graph
           /\ IF r.exc # None
              THEN /\ pc' = "exited"
                   /\ raised' = r.exc
                   /\ exit_status' = ExitOn(r.exc)
                   /\ UNCHANGED final_graph
              ELSE /\ pc' = IF args.dry_run THEN "finish" ELSE "save"
                   /\ final_graph' = r.ret
                   /\ UNCHANGED <<raised, exit_status>>
    /\ UNCHANGED <<args, fs, fs0, save_called>>

MainSave ==
    /\ pc = "save"
    /\ save_called' = TRUE
    /\ \E r \in save_graph(final_graph, fs, args.file_format) :
           /\ fs' = r.fs
           /\ IF r.exc # None
              THEN /\ pc' = "exited"
                   /\ raised' = r.exc
                   /\ exit_status' = ExitOn(r.exc)
              ELSE /\ pc' = "finish"
                   /\ UNCHANGED <<raised, exit_status>>
    /\ UNCHANGED <<args, call, graph, fs0, final_graph>>

\* the optional drawing and the optional web server read the result only;
\* then exit(0)
MainFinish ==
    /\ pc = "finish"
    /\ pc' = "exited"
    /\ exit_status' = <<0>>
    /\ UNCHANGED <<args, call, graph, fs, fs0, final_graph, raised, save_called>>

Next == MainStart \/ MainLoad \/ MainGrow \/ MainSave \/ MainFinish

Spec == Init /\ [][Next]_vars

(***************************************************************************)
(* SpecRuns: run after run of main() on the same savefile, save_graph      *)
(* taken step by step, the process killed at any point of it               *)
(***************************************************************************)
RunDumps == {<<Line("iface", "10.0.0.1", NoMac)>>, <<>>}

RunArgs == [dumpfile : RunDumps,
            exists : {TRUE},
            dumpfile_os : {None},
            dumpfile_type : {None},
            ip : {None},
            file_format : SUPPORTED_FILE_FORMATS,
            ignore_savefile : BOOLEAN,
            dry_run : BOOLEAN]

\* the file holds a complete serialized graph
Good(f) == f.st = "graph"

\* the disk holds a good graph; a corrupt savefile beside a good .bak is what
\* an interrupted write leaves behind
InitRuns ==
    /\ args \in RunArgs
    /\ fs \in {[savefile |-> GoodGraphFile, bak |-> AbsentFile],
                [savefile |-> GoodGraphFile, bak |-> OldGraphFile],
                [savefile |-> CorruptFile, bak |-> GoodGraphFile]}
    /\ fs0 = fs
    /\ call = NoCall
    /\ graph = PyNone
    /\ pc = "start"
    /\ final_graph = PyNone
    /\ raised = None
    /\ exit_status = <<>>
    /\ save_called = FALSE

\* save_graph is entered and shutil.copy has run to its end
SaveBackup ==
    /\ pc = "save"
    /\ save_called' = TRUE
    /\ fs' = backup_copy(fs)
    /\ pc' = "write"
    /\ UNCHANGED <<args, call, graph, fs0, final_graph, raised, exit_status>>

\* the process is killed while shutil.copy is writing .bak
CrashInCopy ==
    /\ pc = "save"
    /\ Exists(fs.savefile)
    /\ save_called' = TRUE
    /\ fs' = [fs EXCEPT !.bak = CorruptFile]
    /\ pc' = "exited"
    /\ raised' = "Killed"
    /\ exit_status' = <<137>>
    /\ UNCHANGED <<args, call, graph, fs0, final_graph>>

\* the writer of the format runs to its end, or raises
SaveWrite ==
    /\ pc = "write"
    /\ \E r \in write_outcomes(final_graph, fs, args.file_format) :
           /\ fs' = r.fs
           /\ IF r.exc # None
              THEN /\ pc' = "exited"
                   /\ raised' = r.exc
                   /\ exit_status' = ExitOn(r.exc)
              ELSE /\ pc' = "finish"
                   /\ UNCHANGED <<raised, exit_status>>
    /\ UNCHANGED <<args, call, graph, fs0, final_graph, save_called>>

\* the process is killed after the writer has opened the savefile for writing
\* (the JSON writer handed None never opens it)
CrashInWrite ==
    /\ pc = "write"
    /\ args.file_format \in SUPPORTED_FILE_FORMATS
    /\ ~(final_graph.py = "None" /\ args.file_format = "JSON")
    /\ fs' = [fs EXCEPT !.savefile = CorruptFile]
    /\ pc' = "exited"
    /\ raised' = "Killed"
    /\ exit_status' = <<137>>
    /\ UNCHANGED <<args, call, graph, fs0, final_graph, save_called>>

\* the program is started again on the disk the last run left; the savefile
\* name, and with it the format, stays the same
NextRun ==
    /\ pc = "exited"
    /\ args' \in {a \in RunArgs : a.file_format = args.file_format}
    /\ fs0' = fs
    /\ call' = NoCall
    /\ graph' = PyNone
    /\ pc' = "start"
    /\ final_graph' = PyNone
    /\ raised' = None
    /\ exit_status' = <<>>
    /\ save_called' = FALSE
    /\ UNCHANGED fs

NextRuns ==
    \/ MainStart \/ MainLoad \/ MainGrow \/ MainFinish
    \/ SaveBackup \/ CrashInCopy \/ SaveWrite \/ CrashInWrite
    \/ NextRun

SpecRuns == InitRuns /\ [][NextRuns]_vars

(***************************************************************************)
(* SpecNode: two Nodes are compared, each way round                        *)
(***************************************************************************)
InitNode ==
    /\ args \in [a : Nodes, b : Nodes]
    /\ call = NoCall
    /\ graph = EmptyGraph
    /\ MainIdle

CallNodeEq ==
    /\ call = NoCall
    /\ call' = [fn |-> "Node.__eq__",
                res |-> Node__eq__(args.a, args.b),
                rev |-> Node__eq__(args.b, args.a)]
    /\ UNCHANGED <<args, graph, mainvars>>

NextNode == CallNodeEq

SpecNode == InitNode /\ [][NextNode]_vars

(***************************************************************************)
(* SpecClassify: a dump is classified                                      *)
(***************************************************************************)
ClassifierLines == IfaceLines \cup HeaderLines \cup WinHostLines \cup OtherLines

InitClassify ==
    /\ args \in [dumpfile : SeqsUpTo(ClassifierLines, MaxLines)]
    /\ call = NoCall
    /\ graph = EmptyGraph
    /\ MainIdle

CallGuess ==
    /\ call = NoCall
    /\ call' = [fn |-> "guess_dumpfile_type_and_os",
                res |-> guess_dumpfile_type_and_os(args.dumpfile)]
    /\ UNCHANGED <<args, graph, mainvars>>

NextClassify == CallGuess

SpecClassify == InitClassify /\ [][NextClassify]_vars

(***************************************************************************)
(* SpecParse: a dump is handed to an extractor, with or without a hint     *)
(***************************************************************************)
ExtractorLines == IfaceLines \cup WinHostLines \cup LinHostLines \cup HopLines
                    \cup OtherLines

InitParse ==
    /\ args \in [dumpfile : SeqsUpTo(ExtractorLines, MaxLines),
                  ip : CentreIPs \cup {None}]
    /\ call = NoCall
    /\ graph = EmptyGraph
    /\ MainIdle

CallParseLinuxTr ==
    /\ call' = [fn |-> "parse_linux_tr", res |-> parse_linux_tr(args.dumpfile, args.ip)]
    /\ UNCHANGED <<args, graph, mainvars>>

CallParseLinuxArp ==
    /\ call' = [fn |-> "parse_linux_arp", res |-> parse_linux_arp(args.dumpfile, args.ip)]
    /\ UNCHANGED <<args, graph, mainvars>>

CallParseWindowsArp ==
    /\ call' = [fn |-> "parse_windows_arp",
                res |-> parse_windows_arp(args.dumpfile, args.ip)]
    /\ UNCHANGED <<args, graph, mainvars>>

NextParse == CallParseLinuxTr \/ CallParseLinuxArp \/ CallParseWindowsArp

SpecParse == InitParse /\ [][NextParse]_vars

(***************************************************************************)
(* Node identity                                                           *)
(***************************************************************************)
\* the rule of the data model: IPs match and, if both carry a MAC, the MACs match
SameEntity(a, b) == a.ip = b.ip /\ ((a.mac # NoMac /\ b.mac # NoMac) => a.mac = b.mac)

\* C5: Node equality returns a result, the same both ways round, and that
\* result is true exactly when the IPs match and, if both Nodes carry a MAC,
\* the MACs match too.
C5_EqualitySymmetricByRule ==
    call.fn = "Node.__eq__" =>
        /\ call.res.exc = None
        /\ call.rev.exc = None
        /\ call.res.ret = call.rev.ret
        /\ call.res.ret = SameEntity(args.a, args.b)

(***************************************************************************)
(* Classifier                                                              *)
(***************************************************************************)
\* the (line, signature) pairs of a file that match
Matching(lines) ==
    {p \in (1..Len(lines)) \X (DOMAIN guess_data) : ReMatch(guess_data[p[2]][2], lines[p[1]])}

\* line first, table position second
Before(p, q) == p[1] < q[1] \/ (p[1] = q[1] /\ p[2] <= q[2])

\* C6: the classifier returns the descriptor of the first match, lines top to
\* bottom and signatures in table order within a line; it returns (None, None)
\* exactly when nothing matches; a file whose first matching line is an
\* "Interface: 10.0.0.1 --- 0x11" line is (arp, windows).
C6_FirstMatchWins ==
    call.fn = "guess_dumpfile_type_and_os" =>
        LET M == Matching(args.dumpfile)
        IN  /\ (M = {}) <=> (call.res = <<None, None>>)
            /\ M # {} =>
                  \E p \in M : /\ \A q \in M : Before(p, q)
                               /\ call.res = guess_data[p[2]][1]
                               /\ args.dumpfile[p[1]] = Line("iface", "10.0.0.1", NoMac)
                                     => call.res = <<"arp", "windows">>

\* a later line matches an earlier table entry than the first matching line does
C6_Witness ==
    /\ call.fn = "guess_dumpfile_type_and_os"
    /\ Len(args.dumpfile) = 3
    /\ args.dumpfile[1].k = "other"
    /\ args.dumpfile[2].k = "hdr_route_dest"
    /\ args.dumpfile[3] = Line("iface", "10.0.0.1", NoMac)
    /\ call.res = <<"route", "linux">>

(***************************************************************************)
(* Extractors                                                              *)
(***************************************************************************)
\* C7: traceroute extraction without a centre IP fails with MyException
\* before any line of the dump is read and returns no hop list.
C7_TracerouteNeedsCentre ==
    (call.fn = "parse_linux_tr" /\ args.ip = None) =>
        /\ call.res.exc = "MyException"
        /\ call.res.ret = <<>>
        /\ call.res.read = 0

C7_Witness ==
    /\ call.fn = "parse_linux_tr"
    /\ args.ip = None
    /\ \E i \in DOMAIN args.dumpfile : args.dumpfile[i].k = "hop"
    /\ call.res.exc = "MyException"

\* the IPs of the Interface lines of a dump, in file order
MarkerIPs(lines) == SelectSeq([i \in DOMAIN lines |->
                                 IF lines[i].k = "iface" THEN lines[i].ip ELSE None],
                              LAMBDA x : x # None)

\* C8: the Windows ARP extractor, given a hint and a dump with an Interface
\* line naming another IP, fails with MyException and returns neither a
\* centre node nor neighbours; a result returned with a hint has the hint as
\* centre and no Interface line contradicts it; a result returned without a
\* hint has the IP found in the dump (its last Interface line) as centre.
\* The Linux ARP extractor, whose dumps carry no centre line, returns the
\* hint as centre and fails with MyException when there is none.
C8_HintAndDumpMustAgree ==
    LET marks == MarkerIPs(args.dumpfile)
    IN  /\ call.fn = "parse_windows_arp" =>
              /\ (args.ip # None /\ \E i \in DOMAIN marks : marks[i] # args.ip) =>
                     (call.res.exc = "MyException" /\ call.res.ret = <<>>)
              /\ (args.ip # None /\ call.res.exc = None) =>
                     /\ call.res.ret[1] = Node(args.ip, NoMac)
                     /\ marks # <<>>
                     /\ \A i \in DOMAIN marks : marks[i] = args.ip
              /\ (args.ip = None /\ call.res.exc = None) =>
                     /\ marks # <<>>
                     /\ call.res.ret[1] = Node(marks[Len(marks)], NoMac)
        /\ call.fn = "parse_linux_arp" =>
              /\ args.ip = None => (call.res.exc = "MyException" /\ call.res.ret = <<>>)
              /\ args.ip # None =>
                     (call.res.exc = None /\ call.res.ret[1] = Node(args.ip, NoMac))

\* a hint, an agreeing Interface line first and a contradicting one after it
C8_Witness ==
    /\ call.fn = "parse_windows_arp"
    /\ args.ip = "10.0.0.1"
    /\ Len(args.dumpfile) = 3
    /\ args.dumpfile[1] = Line("iface", "10.0.0.1", NoMac)
    /\ args.dumpfile[2].k = "winhost"
    /\ args.dumpfile[3] = Line("iface", "10.137.2.16", NoMac)
    /\ call.res.exc = "MyException"

(***************************************************************************)
(* Growth                                                                  *)
(***************************************************************************)
\* the graph holds a key for this Node, by the identity rule
InGraph(g, n) == \E k \in g.nodes : SameEntity(k, n)
\* the graph holds an edge between keys for these two Nodes
Linked(g, m, n) ==
    \E e \in g.edges : \E k1, k2 \in e : SameEntity(k1, m) /\ SameEntity(k2, n)

\* the dump-type grow_graph works with: the one given, else the one guessed
GrowType == IF args.dumpfile_type = None THEN guess_dumpfile_type(args.dumpfile)
            ELSE args.dumpfile_type

\* C1: a second grow with the same dump, on the graph the first grow left,
\* adds no node and no edge, whatever the dump-type.
C1_GrowthIdempotent ==
    (call.fn = "grow_graph" /\ call.rep = 2) =>
        /\ call.res.graph.nodes = call.before.nodes
        /\ call.res.graph.edges = call.before.edges

\* the second grow of a Windows ARP dump that parses
C1_Witness ==
    /\ call.fn = "grow_graph"
    /\ call.rep = 2
    /\ GrowType = "arp"
    /\ call.res.exc = None
    /\ \E i \in DOMAIN args.dumpfile : args.dumpfile[i].k = "winhost"

\* C2: after grow with a (Windows) ARP dump the extractor accepts, the graph
\* holds the centre node and every discovered node, and an edge between the
\* centre and each discovered node.
C2_ArpGrowthAddsNeighbours ==
    LET arp == parse_windows_arp(args.dumpfile, args.ip)
    IN  (/\ call.fn = "grow_graph"
         /\ GrowType = "arp"
         /\ args.dumpfile_os \in {None, "windows"}
         /\ arp.exc = None) =>
            /\ InGraph(call.res.graph, arp.ret[1])
            /\ \A i \in DOMAIN arp.ret[2] :
                   /\ InGraph(call.res.graph, arp.ret[2][i])
                   /\ Linked(call.res.graph, arp.ret[1], arp.ret[2][i])

\* C3: after grow with a traceroute dump and a centre IP, every hop of the
\* sequence (the centre first, then the hop lines in file order) is a node,
\* consecutive hops are linked, and no other edge is new.
C3_TracerouteGrowthAddsPath ==
    LET tr == parse_linux_tr(args.dumpfile, args.ip)
        hops == tr.ret
    IN  (/\ call.fn = "grow_graph"
         /\ GrowType = "traceroute"
         /\ args.ip # None) =>
            /\ hops[1] = Node(args.ip, NoMac)
            /\ \A i \in DOMAIN hops : InGraph(call.res.graph, hops[i])
            /\ \A i \in 1..(Len(hops) - 1) :
                   hops[i] # hops[i + 1] => Linked(call.res.graph, hops[i], hops[i + 1])
            /\ \A e \in call.res.graph.edges \ call.before.edges :
                   \E i \in 1..(Len(hops) - 1) :
                       \E k1, k2 \in e : SameEntity(k1, hops[i]) /\ SameEntity(k2, hops[i + 1])

\* C4: grow with a route dump leaves the edges as they were and adds the
\* hosts of the routing table rows as nodes.
C4_RouteGrowthAddsNoEdge ==
    (call.fn = "grow_graph" /\ GrowType = "route") =>
        /\ call.res.graph.edges = call.before.edges
        /\ \A i \in DOMAIN args.dumpfile :
               args.dumpfile[i].k = "row" =>
                   InGraph(call.res.graph, Node(args.dumpfile[i].ip, NoMac))

(***************************************************************************)
(* The command line run                                                    *)
(***************************************************************************)
\* the run ended because grow_graph raised
GrowFailed == pc = "exited" /\ call.fn = "grow_graph" /\ call.res.exc # None

\* C9: when grow_graph fails (invalid type or OS, contradictory or missing
\* centre IP, no extractor for the pair), the in-memory graph has the nodes and
\* edges it was loaded with, save_graph was not called, and the savefile and
\* its backup are as they were when the run started.
C9_FailureChangesNothing ==
    GrowFailed =>
        /\ graph.nodes = call.before.nodes
        /\ graph.edges = call.before.edges
        /\ ~save_called
        /\ fs = fs0

\* a contradictory centre IP, with a graph loaded from an existing savefile
C9_Witness ==
    /\ GrowFailed
    /\ call.res.exc = "MyException"
    /\ args.ip = "10.0.0.1"
    /\ \E i \in DOMAIN args.dumpfile : args.dumpfile[i] = Line("iface", "10.137.2.16", NoMac)
    /\ call.before = OneEdgeGraph
    /\ Exists(fs.savefile)

\* C10: a run that completes exits with status 0; a run stopped by
\* MyException exits with a status other than 0.
C10_ExitStatus ==
    pc = "exited" =>
        /\ raised = None => exit_status = <<0>>
        /\ raised = "MyException" => exit_status # <<0>>

(***************************************************************************)
(* Persistence                                                             *)
(***************************************************************************)
\* C11: save_graph has copied an existing savefile to .bak before it writes,
\* and over any sequence of runs, with the process killed at any point of a
\* save, the savefile or its .bak holds a complete good graph.
C11_GoodCopySurvives ==
    /\ (pc = "write" /\ Exists(fs0.savefile)) => fs.bak = fs0.savefile
    /\ Good(fs.savefile) \/ Good(fs.bak)

\* the path main() handed to load_graph
LoadedPath == IF args.ignore_savefile THEN NoPath ELSE fs.savefile

\* C12: load_graph returns an empty graph when the savefile does not exist or
\* loading is skipped; when the savefile exists and is unparsable, or the
\* format is unknown, it fails with MyException, whatever the format; it
\* returns the whole stored graph or no graph at all.
C12_LoadEmptyOrFormatError ==
    call.fn = "load_graph" =>
        /\ LoadedPath.st \in {"nopath", "absent"} =>
               (call.res.exc = None /\ call.res.ret = EmptyGraph)
        /\ (LoadedPath.st = "corrupt"
              \/ (Good(LoadedPath) /\ args.file_format \notin SUPPORTED_FILE_FORMATS)) =>
               call.res.exc = "MyException"
        /\ call.res.exc # None => call.res.ret = PyNone
        /\ (call.res.exc = None /\ Good(LoadedPath)) =>
               call.res.ret = Graph(LoadedPath.nodes, LoadedPath.edges)

====
